---- MODULE Spec2Model ----
(***************************************************************************)
(* Red Team Timeline: the document state (config + events), the time-axis  *)
(* mappers, the event position resolver and the cluster overflow           *)
(* aggregation of the Timeline component.                                  *)
(*                                                                         *)
(* Calendar dates.  A date string "yyyy-MM-dd" is modelled by the number   *)
(* of its calendar day, counted from a Monday (day 0): parseISO of such a  *)
(* string is the day, and a string parseISO cannot read is a negative      *)
(* number.  Time-of-day forms of ISO strings are not modelled.             *)
(*                                                                         *)
(* Percentages.  The code computes percentages as IEEE doubles; the model  *)
(* computes them exactly, as fractions [num, den] in lowest terms with     *)
(* den > 0, so that equal percentages are equal values.                    *)
(***************************************************************************)
EXTENDS Integers, Sequences, FiniteSets, TLC

VARIABLES
    config,         \* state.config: [title, startDate, endDate]
    events,         \* state.events: sequence of TimelineEvent
    timeScale,      \* App's timeScale: "days" | "weeks"
    weeks,          \* Timeline: week tick percents (weeks mode)
    days,           \* Timeline: day tick percents (days mode)
    dayTicks,       \* Timeline: minor day tick percents (weeks mode)
    red,            \* Timeline: red PositionedEvent list
    blue,           \* Timeline: blue PositionedEvent list
    redOverflows,   \* Timeline: red overflow descriptors
    blueOverflows,  \* Timeline: blue overflow descriptors
    redFlags,       \* Timeline: rendered red flags (renderEvent results)
    blueFlags,      \* Timeline: rendered blue flags
    file,           \* the document file the last export wrote, or NoFile
    importError,    \* the reason the last import was rejected with, or "none"
    editingEvent,   \* App: the event the editor is open on (<< >>: closed)
    confirmDelete,  \* EventEditor: the Delete button asks for confirmation
    selected,       \* EventList: the ids whose row checkbox is checked
    lastOp,         \* the last operation on the document
    steps           \* the number of operations on the document so far

docVars == <<config, events, timeScale>>
viewVars == <<weeks, days, dayTicks, red, blue, redOverflows, blueOverflows,
              redFlags, blueFlags>>
ioVars == <<file, importError>>
editorVars == <<editingEvent, confirmDelete>>
listVars == <<selected>>
logVars == <<lastOp, steps>>
vars == <<config, events, timeScale, weeks, days, dayTicks, red, blue,
          redOverflows, blueOverflows, redFlags, blueFlags,
          file, importError, editingEvent, confirmDelete, selected, lastOp,
          steps>>

-----------------------------------------------------------------------------
(* Bounds of the model *)

\* MapperSpec: the calendar days 0..MaxDay a range may start or end on
MaxDay == 15

\* LayoutSpec: the largest number of events handed to the Timeline
MaxEvents == 5

\* LayoutSpec: the last day of the long range, which starts on day 0
LongRangeEnd == 70

\* Spec: the number of operations on the document in one run
MaxSteps == 2

-----------------------------------------------------------------------------
(* Exact arithmetic on percentages *)

Abs(x) == IF x < 0 THEN -x ELSE x

RECURSIVE GCD(_, _)
GCD(a, b) == IF b = 0 THEN a ELSE GCD(b, a % b)

\* n / d for d > 0, in lowest terms
Frac(n, d) ==
    LET g == GCD(Abs(n), d)
    IN  [num |-> n \div g, den |-> d \div g]

FracOfInt(k) == [num |-> k, den |-> 1]
FracAdd(a, b) == Frac(a.num * b.den + b.num * a.den, a.den * b.den)
FracSub(a, b) == Frac(a.num * b.den - b.num * a.den, a.den * b.den)
FracMul(a, b) == Frac(a.num * b.num, a.den * b.den)
FracAbs(a) == [num |-> Abs(a.num), den |-> a.den]
FracLt(a, b) == a.num * b.den < b.num * a.den
FracLe(a, b) == a.num * b.den <= b.num * a.den

-----------------------------------------------------------------------------
(* date-fns *)

parseISO(s) == s
isValid(d) == d >= 0
differenceInCalendarDays(a, b) == a - b
addDays(d, n) == d + n

\* startOfWeek(d, {weekStartsOn: 1}): the Monday on or before d
startOfWeek(d) == d - (d % 7)

\* eachWeekOfInterval({start, end}, {weekStartsOn: 1}), start <= end
eachWeekOfInterval(start, end) ==
    LET first == startOfWeek(start)
        n == ((startOfWeek(end) - first) \div 7) + 1
    IN  [i \in 1..n |-> first + 7 * (i - 1)]

\* eachDayOfInterval({start, end}), start <= end
eachDayOfInterval(start, end) ==
    [i \in 1..(end - start + 1) |-> start + (i - 1)]

-----------------------------------------------------------------------------
(* Time-axis mappers *)

\* The loop of dayToEvenPercent: the last week start <= day, else 0 (0-based)
RECURSIVE FindWeekIdx(_, _, _)
FindWeekIdx(day, ws, i) ==
    IF i < 0 THEN 0
    ELSE IF day >= ws[i + 1] THEN i
    ELSE FindWeekIdx(day, ws, i - 1)

\* A mutant of weekEndOf: the last week ends on the end date itself
weekEndOf_NoExtraDay(weekIdx, ws, endDate) ==
    IF weekIdx < Len(ws) - 1 THEN ws[weekIdx + 2] ELSE endDate

\* weekEnd of dayToEvenPercent: the last week ends one day past the end date
weekEndOf(weekIdx, ws, endDate) ==
    IF weekIdx < Len(ws) - 1 THEN ws[weekIdx + 2] ELSE addDays(endDate, 1)

dayToEvenPercent(day, ws, endDate) ==
    IF Len(ws) = 0 THEN FracOfInt(0)
    ELSE
      LET numWeeks == Len(ws)
          weekIdx == FindWeekIdx(day, ws, Len(ws) - 1)
          weekStart == ws[weekIdx + 1]
          weekEnd == weekEndOf(weekIdx, ws, endDate)
          weekDays == differenceInCalendarDays(weekEnd, weekStart)
          dayInWeek == differenceInCalendarDays(day, weekStart)
          fractionalPos == IF weekDays > 0 THEN Frac(dayInWeek, weekDays)
                           ELSE FracOfInt(0)
          weekWidth == Frac(100, numWeeks)
      IN  FracAdd(FracMul(FracOfInt(weekIdx), weekWidth),
                  FracMul(fractionalPos, weekWidth))

\* A mutant of dayIndexOf: the arguments of the difference swapped
dayIndexOf_Swapped(day, startDate) == differenceInCalendarDays(startDate, day)

\* dayIndex of dayToLinearPercent
dayIndexOf(day, startDate) == differenceInCalendarDays(day, startDate)

dayToLinearPercent(day, startDate, nDays) ==
    IF nDays <= 0 THEN FracOfInt(0)
    ELSE
      LET dayIndex == dayIndexOf(day, startDate)
      IN  FracMul(Frac(dayIndex, nDays), FracOfInt(100))

-----------------------------------------------------------------------------
(* Timeline: values derived from the props *)

totalDays(cfg) ==
    differenceInCalendarDays(parseISO(cfg.endDate), parseISO(cfg.startDate))

isDaysMode(ts) == ts = "days"

\* A mutant of weekStarts: only a reversed range gives no weeks
weekStarts_EqualRangeKept(cfg) ==
    IF totalDays(cfg) < 0 THEN << >>
    ELSE eachWeekOfInterval(parseISO(cfg.startDate), parseISO(cfg.endDate))

weekStarts(cfg) ==
    IF totalDays(cfg) <= 0 THEN << >>
    ELSE eachWeekOfInterval(parseISO(cfg.startDate), parseISO(cfg.endDate))

toPercent(cfg, ts, day) ==
    IF isDaysMode(ts)
    THEN dayToLinearPercent(day, parseISO(cfg.startDate), totalDays(cfg))
    ELSE dayToEvenPercent(day, weekStarts(cfg), parseISO(cfg.endDate))

weeksMemo(cfg, ts) ==
    LET ws == weekStarts(cfg)
    IN  IF isDaysMode(ts) \/ Len(ws) = 0 THEN << >>
        ELSE [i \in 1..Len(ws) |->
                FracMul(Frac(i - 1, Len(ws)), FracOfInt(100))]

daysMemo(cfg, ts) ==
    IF ~isDaysMode(ts) \/ totalDays(cfg) <= 0 THEN << >>
    ELSE LET allDays == eachDayOfInterval(parseISO(cfg.startDate),
                                          parseISO(cfg.endDate))
         IN  [i \in 1..Len(allDays) |->
                dayToLinearPercent(allDays[i], parseISO(cfg.startDate),
                                   totalDays(cfg))]

dayTicksMemo(cfg, ts) ==
    IF isDaysMode(ts) \/ totalDays(cfg) <= 0 THEN << >>
    ELSE LET allDays == eachDayOfInterval(parseISO(cfg.startDate),
                                          parseISO(cfg.endDate))
         IN  [i \in 1..Len(allDays) |->
                dayToEvenPercent(allDays[i], weekStarts(cfg),
                                 parseISO(cfg.endDate))]

-----------------------------------------------------------------------------
(* Event position resolver *)

CLUSTER_VISIBLE_LIMIT == 3
PROXIMITY_THRESHOLD_PCT == Frac(3, 2)
poleHeight == 30
stackSpacing == 32

\* Array.prototype.sort with the comparator
\* parseISO(a.date).getTime() - parseISO(b.date).getTime(): a stable sort.
\* InsertByDate puts e behind every element that does not come after it.
\* A mutant of InsertByDate: e goes before the elements of its own date
RECURSIVE InsertByDate_BeforeEquals(_, _)
InsertByDate_BeforeEquals(s, e) ==
    IF s = << >> THEN <<e>>
    ELSE IF parseISO(Head(s).date) < parseISO(e.date)
         THEN <<Head(s)>> \o InsertByDate_BeforeEquals(Tail(s), e)
         ELSE <<e>> \o s

RECURSIVE InsertByDate(_, _)
InsertByDate(s, e) ==
    IF s = << >> THEN <<e>>
    ELSE IF parseISO(Head(s).date) <= parseISO(e.date)
         THEN <<Head(s)>> \o InsertByDate(Tail(s), e)
         ELSE <<e>> \o s

RECURSIVE SortPrefix(_, _)
SortPrefix(evs, n) ==
    IF n = 0 THEN << >> ELSE InsertByDate(SortPrefix(evs, n - 1), evs[n])

sorted(evs) == SortPrefix(evs, Len(evs))

\* The loop over sorted: each event with its percent, split by team
RECURSIVE TeamEvents(_, _, _, _)
TeamEvents(s, cfg, ts, isRed) ==
    IF s = << >> THEN << >>
    ELSE LET event == Head(s)
             rest == TeamEvents(Tail(s), cfg, ts, isRed)
         IN  IF (event.team = "red") = isRed
             THEN <<[event |-> event,
                     percent |-> toPercent(cfg, ts, parseISO(event.date))]>>
                  \o rest
             ELSE rest

\* A mutant of joinsCluster: the distance to the previous member
joinsCluster_Pairwise(ev, lastCluster) ==
    FracLt(FracAbs(FracSub(ev.percent, lastCluster[Len(lastCluster)].percent)),
           PROXIMITY_THRESHOLD_PCT)

\* The test of assignPositions that lets ev join the open cluster
joinsCluster(ev, lastCluster) ==
    FracLt(FracAbs(FracSub(ev.percent, lastCluster[1].percent)),
           PROXIMITY_THRESHOLD_PCT)

\* The first loop of assignPositions over the first n team events
RECURSIVE clusters(_, _)
clusters(teamEvents, n) ==
    IF n = 0 THEN << >>
    ELSE LET cs == clusters(teamEvents, n - 1)
             ev == teamEvents[n]
         IN  IF Len(cs) > 0 /\ joinsCluster(ev, cs[Len(cs)])
             THEN [cs EXCEPT ![Len(cs)] = Append(@, ev)]
             ELSE Append(cs, <<ev>>)

\* A mutant of isTruncated: the slot at the limit is still shown
isTruncated_PastLimit(clusterSize, i) ==
    clusterSize > CLUSTER_VISIBLE_LIMIT /\ i > CLUSTER_VISIBLE_LIMIT

isTruncated(clusterSize, i) ==
    clusterSize > CLUSTER_VISIBLE_LIMIT /\ i >= CLUSTER_VISIBLE_LIMIT

\* cluster.forEach of assignPositions
positionCluster(cluster) ==
    [k \in 1..Len(cluster) |->
        [event |-> cluster[k].event,
         percent |-> cluster[k].percent,
         stackIndex |-> k - 1,
         clusterSize |-> Len(cluster),
         truncated |-> isTruncated(Len(cluster), k - 1)]]

RECURSIVE FlattenClusters(_)
FlattenClusters(cs) ==
    IF cs = << >> THEN << >>
    ELSE positionCluster(Head(cs)) \o FlattenClusters(Tail(cs))

assignPositions(teamEvents) ==
    FlattenClusters(clusters(teamEvents, Len(teamEvents)))

\* A mutant of getEventPositions: the clusters are formed over the events
\* of both teams, and the records are split by team afterwards
getEventPositions_SplitAfterwards(evs, cfg, ts) ==
    LET s == sorted(evs)
        all == assignPositions(
                   [k \in 1..Len(s) |->
                       [event |-> s[k],
                        percent |-> toPercent(cfg, ts, parseISO(s[k].date))]])
        isRedRecord(r) == r.event.team = "red"
        isBlueRecord(r) == r.event.team # "red"
    IN  [red |-> SelectSeq(all, isRedRecord),
         blue |-> SelectSeq(all, isBlueRecord)]

getEventPositions(evs, cfg, ts) ==
    LET s == sorted(evs)
    IN  [red |-> assignPositions(TeamEvents(s, cfg, ts, TRUE)),
         blue |-> assignPositions(TeamEvents(s, cfg, ts, FALSE))]

-----------------------------------------------------------------------------
(* Cluster overflow aggregation *)

\* A mutant of hidden: every truncated record, whatever its date
hidden_AllTruncated(positions, p) ==
    LET keep(r) == r.truncated
    IN  SelectSeq(positions, keep)

\* The records the filter of redOverflows / blueOverflows keeps for p
hidden(positions, p) ==
    LET keep(r) == r.truncated /\ r.event.date = p.event.date
    IN  SelectSeq(positions, keep)

overflowOffset == poleHeight + CLUSTER_VISIBLE_LIMIT * stackSpacing

\* The loop of redOverflows / blueOverflows over the first n records; seen
\* holds the dates of the truncated records already passed
RECURSIVE overflowsUpTo(_, _)
overflowsUpTo(positions, n) ==
    IF n = 0 THEN << >>
    ELSE LET before == overflowsUpTo(positions, n - 1)
             p == positions[n]
             seen == {positions[k].event.date :
                        k \in {j \in 1..(n - 1) : positions[j].truncated}}
         IN  IF ~p.truncated \/ p.event.date \in seen THEN before
             ELSE LET h == hidden(positions, p)
                  IN  Append(before,
                             [percent |-> p.percent,
                              count |-> Len(h),
                              offset |-> overflowOffset,
                              events |-> [k \in 1..Len(h) |-> h[k].event]])

overflows(positions) == overflowsUpTo(positions, Len(positions))

-----------------------------------------------------------------------------
(* Rendering of the flags *)

\* A mutant of renderEvent: the flag stacked by its slot in the cluster
renderEvent_ByStackIndex(positioned) ==
    LET lane == positioned.event.lane - 1
        offset == poleHeight + positioned.stackIndex * stackSpacing
    IN  [event |-> positioned.event,
         left |-> positioned.percent,
         offset |-> offset,
         zIndex |-> 5 - lane]

\* renderEvent for a record that is not truncated
renderEvent(positioned) ==
    LET lane == positioned.event.lane - 1
        offset == poleHeight + lane * stackSpacing
    IN  [event |-> positioned.event,
         left |-> positioned.percent,
         offset |-> offset,
         zIndex |-> 5 - lane]

\* [...red].sort((a, b) => b.event.lane - a.event.lane): stable, lane
\* descending
RECURSIVE InsertByLaneDesc(_, _)
InsertByLaneDesc(s, p) ==
    IF s = << >> THEN <<p>>
    ELSE IF Head(s).event.lane >= p.event.lane
         THEN <<Head(s)>> \o InsertByLaneDesc(Tail(s), p)
         ELSE <<p>> \o s

RECURSIVE SortByLaneDesc(_, _)
SortByLaneDesc(positions, n) ==
    IF n = 0 THEN << >>
    ELSE InsertByLaneDesc(SortByLaneDesc(positions, n - 1), positions[n])

\* The flags drawn for a team: renderEvent returns null for a truncated
\* record and React draws nothing for it
flagsOf(positions) ==
    LET ordered == SortByLaneDesc(positions, Len(positions))
        shown(p) == ~p.truncated
        visible == SelectSeq(ordered, shown)
    IN  [k \in 1..Len(visible) |-> renderEvent(visible[k])]

\* The axis memos of one render; they depend on the range and the scale
RenderAxis(cfg, ts) ==
    /\ weeks' = weeksMemo(cfg, ts)
    /\ days' = daysMemo(cfg, ts)
    /\ dayTicks' = dayTicksMemo(cfg, ts)

\* The event memos and the flags of one render
RenderEvents(cfg, evs, ts) ==
    LET pos == getEventPositions(evs, cfg, ts)
    IN  /\ red' = pos.red
        /\ blue' = pos.blue
        /\ redOverflows' = overflows(pos.red)
        /\ blueOverflows' = overflows(pos.blue)
        /\ redFlags' = flagsOf(pos.red)
        /\ blueFlags' = flagsOf(pos.blue)

\* One render of the Timeline with the props (config, events, timeScale)
Render(cfg, evs, ts) ==
    /\ RenderAxis(cfg, ts)
    /\ RenderEvents(cfg, evs, ts)

\* The first render
InitialRender(cfg, evs, ts) ==
    LET pos == getEventPositions(evs, cfg, ts)
    IN  /\ weeks = weeksMemo(cfg, ts)
        /\ days = daysMemo(cfg, ts)
        /\ dayTicks = dayTicksMemo(cfg, ts)
        /\ red = pos.red
        /\ blue = pos.blue
        /\ redOverflows = overflows(pos.red)
        /\ blueOverflows = overflows(pos.blue)
        /\ redFlags = flagsOf(pos.red)
        /\ blueFlags = flagsOf(pos.blue)

-----------------------------------------------------------------------------
(* Document state: useTimelineState *)

Teams == {"red", "blue"}
Lanes == 1..4
Scales == {"days", "weeks"}

\* The identifiers uuidv4 hands out, in the order the model draws them
UuidPool == <<"u1", "u2", "u3", "u4", "u5", "u6", "u7", "u8", "u9", "u10">>

idsOf(evs) == {evs[i].id : i \in DOMAIN evs}

\* uuidv4(): an identifier no event of the document carries
uuidv4(used) ==
    LET free == {i \in DOMAIN UuidPool : UuidPool[i] \notin used}
        first == CHOOSE i \in free : \A j \in free : i <= j
    IN  UuidPool[first]

mkConfig(title, startDate, endDate) ==
    [title |-> title, startDate |-> startDate, endDate |-> endDate]

mkEvent(id, date, team, description, lane) ==
    [id |-> id, date |-> date, team |-> team,
     description |-> description, lane |-> lane]

\* addEvent: the new list of events
addEventTo(evs, event) ==
    Append(evs, mkEvent(uuidv4(idsOf(evs)), event.date, event.team,
                        event.description, event.lane))

-----------------------------------------------------------------------------
(* Operations *)

\* useTimelineState.addEvent, called with any event
addEvent(event) ==
    /\ events' = addEventTo(events, event)
    /\ UNCHANGED <<config, timeScale>>
    /\ UNCHANGED <<weeks, days, dayTicks>>
    /\ RenderEvents(config, events', timeScale)

\* useTimelineState.setConfig
setConfig(cfg) ==
    /\ config' = cfg
    /\ UNCHANGED <<events, timeScale>>
    /\ Render(config', events, timeScale)

\* App: the Weeks / Days buttons
setTimeScale(ts) ==
    /\ timeScale' = ts
    /\ UNCHANGED <<config, events>>
    /\ Render(config, events, timeScale')

\* { ...e, ...updates }: the fields of updates over those of e
spread(e, updates) ==
    [f \in DOMAIN e |-> IF f \in DOMAIN updates THEN updates[f] ELSE e[f]]

\* A mutant of updateEventIn: only the first event with the id is updated
updateEventIn_FirstMatch(evs, id, updates) ==
    [i \in DOMAIN evs |->
        IF evs[i].id = id /\ \A j \in 1..(i - 1) : evs[j].id # id
        THEN spread(evs[i], updates)
        ELSE evs[i]]

\* useTimelineState.updateEvent: the new list of events
updateEventIn(evs, id, updates) ==
    [i \in DOMAIN evs |->
        IF evs[i].id = id
        THEN spread(evs[i], updates)
        ELSE evs[i]]

\* useTimelineState.deleteEvent: the new list of events
deleteEventFrom(evs, id) ==
    LET keep(e) == e.id # id
    IN  SelectSeq(evs, keep)

\* useTimelineState.updateEvent
updateEvent(id, updates) ==
    /\ events' = updateEventIn(events, id, updates)
    /\ UNCHANGED <<config, timeScale>>
    /\ UNCHANGED <<weeks, days, dayTicks>>
    /\ RenderEvents(config, events', timeScale)

\* useTimelineState.deleteEvent
deleteEvent(id) ==
    /\ events' = deleteEventFrom(events, id)
    /\ UNCHANGED <<config, timeScale>>
    /\ UNCHANGED <<weeks, days, dayTicks>>
    /\ RenderEvents(config, events', timeScale)

\* useTimelineState.loadState: lane ?? 1 keeps every lane validateEvent set
loadState(newState) ==
    /\ config' = newState.config
    /\ events' = newState.events
    /\ UNCHANGED timeScale
    /\ Render(config', events', timeScale)

-----------------------------------------------------------------------------
(* Strings and JSON values *)

\* String.prototype.trim on the strings of the model
trim(str) ==
    CASE str = " " -> ""
      [] str = " seen " -> "seen"
      [] str = " late " -> "late"
      [] OTHER -> str

\* A JSON scalar: its type, with a text (s) or a number (n).  A string that
\* holds a date carries the day in n (negative: not an ISO date).
JStr(str) == [type |-> "string", s |-> str, n |-> -1]
JDate(day) == [type |-> "string", s |-> "date", n |-> day]
JNum(k) == [type |-> "number", s |-> "", n |-> k]
JUndefined == [type |-> "undefined", s |-> "", n |-> 0]

JEvent(id, date, team, description, lane) ==
    [type |-> "object", id |-> id, date |-> date, team |-> team,
     description |-> description, lane |-> lane]

\* A JSON value in the place of an event that has none of the event's fields
JNoEvent(type) ==
    [type |-> type, id |-> JUndefined, date |-> JUndefined,
     team |-> JUndefined, description |-> JUndefined, lane |-> JUndefined]

JConfig(title, startDate, endDate) ==
    [type |-> "object", title |-> title, startDate |-> startDate,
     endDate |-> endDate]

JNoConfig(type) ==
    [type |-> type, title |-> JUndefined, startDate |-> JUndefined,
     endDate |-> JUndefined]

JArray(items) == [type |-> "array", items |-> items]
JNoArray(type) == [type |-> type, items |-> << >>]

JDocument(cfg, evs) == [type |-> "object", config |-> cfg, events |-> evs]

\* A root that is no object with a config: its properties are undefined
JNoDocument(type) ==
    [type |-> type, config |-> JNoConfig("undefined"),
     events |-> JNoArray("undefined")]

\* typeof v: arrays and null are "object"
typeofJs(v) == IF v.type \in {"object", "array", "null"} THEN "object" ELSE v.type

-----------------------------------------------------------------------------
(* importFromJson *)

isValidISODate(value) ==
    /\ typeofJs(value) = "string"
    /\ isValid(parseISO(value.n))

\* A mutant of descriptionInvalid: the description is not trimmed
descriptionInvalid_NoTrim(e) ==
    typeofJs(e.description) # "string" \/ e.description.s = ""

\* The description test of validateEvent
descriptionInvalid(e) ==
    typeofJs(e.description) # "string" \/ trim(e.description.s) = ""

\* The first test of validateEvent that throws, or "none"
validateEventError(e) ==
    IF typeofJs(e) # "object" \/ e.type = "null" THEN "event"
    ELSE IF ~isValidISODate(e.date) THEN "event.date"
    ELSE IF e.team.type # "string" \/ e.team.s \notin {"red", "blue"}
         THEN "event.team"
    ELSE IF descriptionInvalid(e) THEN "event.description"
    ELSE "none"

\* A mutant of eventId: every imported event gets a fresh id
eventId_Regenerated(e, used) == uuidv4(used)

\* The id validateEvent gives the event
eventId(e, used) ==
    IF typeofJs(e.id) = "string" /\ trim(e.id.s) # ""
    THEN e.id.s ELSE uuidv4(used)

\* A mutant of eventLane: any number is kept
eventLane_AnyNumber(e) == IF e.lane.type = "number" THEN e.lane.n ELSE 1

\* The lane validateEvent gives the event
eventLane(e) ==
    IF e.lane.type = "number" /\ e.lane.n \in {1, 2, 3, 4}
    THEN e.lane.n ELSE 1

\* The event validateEvent returns for an event that passes its tests
validateEvent(e, used) ==
    LET id == eventId(e, used)
        lane == eventLane(e)
    IN  mkEvent(id, e.date.n, e.team.s, e.description.s, lane)

\* The identifiers the strings of a JSON document spell
jsonIds(items) ==
    {items[i].id.s : i \in {j \in DOMAIN items : items[j].id.type = "string"}}

\* data.events.map(validateEvent) over the first n items: the events, or the
\* error of the first item that throws
RECURSIVE validateEvents(_, _, _)
validateEvents(items, n, used) ==
    IF n = 0 THEN [error |-> "none", events |-> << >>]
    ELSE LET before == validateEvents(items, n - 1, used)
             err == validateEventError(items[n])
         IN  IF before.error # "none" THEN before
             ELSE IF err # "none" THEN [error |-> err, events |-> << >>]
             ELSE [error |-> "none",
                   events |-> Append(before.events,
                       validateEvent(items[n],
                                     used \cup idsOf(before.events)))]

\* The first test of importFromJson that throws before the events are
\* validated, or "none"
documentError(data) ==
    IF typeofJs(data) # "object" \/ data.type = "null" THEN "root"
    ELSE IF typeofJs(data.config) # "object" \/ data.config.type = "null"
         THEN "config"
    ELSE IF typeofJs(data.config.title) # "string"
              \/ trim(data.config.title.s) = "" THEN "config.title"
    ELSE IF ~isValidISODate(data.config.startDate) THEN "config.startDate"
    ELSE IF ~isValidISODate(data.config.endDate) THEN "config.endDate"
    ELSE IF data.events.type # "array" THEN "events"
    ELSE "none"

\* The state slot of a rejected import
NoState == [config |-> mkConfig("", 0, 0), events |-> << >>]

\* importFromJson on a file with content data: the state the promise
\* resolves with, or the error it rejects with.  JSON.parse throws on a file
\* that is not JSON (type "unparseable"), which rejects as well.
importFromJson(data, used) ==
    IF data.type = "unparseable"
    THEN [error |-> "parse", state |-> NoState]
    ELSE IF documentError(data) # "none"
    THEN [error |-> documentError(data), state |-> NoState]
    ELSE LET r == validateEvents(data.events.items, Len(data.events.items),
                                 used \cup jsonIds(data.events.items))
         IN  [error |-> r.error,
              state |-> [config |-> mkConfig(data.config.title.s,
                                             data.config.startDate.n,
                                             data.config.endDate.n),
                         events |-> r.events]]

\* exportState: structuredClone(state)
exportState == [config |-> config, events |-> events]

\* The JSON text of an exported state, as JSON.parse reads it back
toJson(state) ==
    JDocument(
        JConfig(JStr(state.config.title), JDate(state.config.startDate),
                JDate(state.config.endDate)),
        JArray([i \in DOMAIN state.events |->
            JEvent(JStr(state.events[i].id), JDate(state.events[i].date),
                   JStr(state.events[i].team),
                   JStr(state.events[i].description),
                   JNum(state.events[i].lane))]))

NoFile == JNoDocument("nofile")

\* Nothing exported or imported yet
NoIo ==
    /\ file = NoFile
    /\ importError = "none"
    /\ editingEvent = << >>
    /\ confirmDelete = FALSE
    /\ selected = {}
    /\ lastOp = "init"
    /\ steps = 0

-----------------------------------------------------------------------------
(* EventForm and EventEditor *)

min2(a, b) == IF a <= b THEN a ELSE b
max2(a, b) == IF a <= b THEN b ELSE a

\* date-fns isWithinInterval (version 3 and later: the bounds are put in
\* order; an invalid date is in no interval)
isWithinInterval(d, start, end) ==
    isValid(d) /\ min2(start, end) <= d /\ d <= max2(start, end)

\* A mutant of validate: the description is not tested
validate_DateOnly(cfg, date, description) ==
    /\ date >= 0
    /\ isWithinInterval(parseISO(date), parseISO(cfg.startDate),
                        parseISO(cfg.endDate))

\* validate() of EventForm and of EventEditor: no error found.  The empty
\* date string is a negative day.
validate(cfg, date, description) ==
    /\ date >= 0
    /\ isWithinInterval(parseISO(date), parseISO(cfg.startDate),
                        parseISO(cfg.endDate))
    /\ trim(description) # ""

-----------------------------------------------------------------------------
(* MapperSpec: the Timeline over every date range within 0..MaxDay, in     *)
(* both scales, with at most one event, on any day                         *)

MapperDays == 0..MaxDay

MapperConfigs == {mkConfig("Assessment", s, e) : s \in MapperDays, e \in MapperDays}

MapperInputs ==
    {[date |-> d, team |-> "red", description |-> "recon", lane |-> 1] :
        d \in MapperDays}

MapperInit ==
    /\ config \in MapperConfigs
    /\ timeScale = "weeks"
    /\ events = << >>
    /\ InitialRender(config, events, timeScale)
    /\ NoIo

MapperAddEvent ==
    /\ events = << >>
    /\ \E event \in MapperInputs : addEvent(event)
    /\ UNCHANGED <<ioVars, editorVars, listVars, logVars>>

MapperSetTimeScale ==
    /\ \E ts \in Scales : setTimeScale(ts)
    /\ UNCHANGED <<ioVars, editorVars, listVars, logVars>>

MapperNext == MapperAddEvent \/ MapperSetTimeScale

MapperSpec == MapperInit /\ [][MapperNext]_vars

-----------------------------------------------------------------------------
(* LayoutSpec: the Timeline over growing event lists, under a long range   *)
(* (one day is less than 1.5 percent wide, two days are more) and under    *)
(* degenerate ranges                                                       *)

LayoutConfigs ==
    {mkConfig("Assessment", 0, LongRangeEnd),
     mkConfig("Assessment", 4, 4),
     mkConfig("Assessment", 9, 2)}

LayoutInputs ==
    {[date |-> 0, team |-> "red", description |-> "recon", lane |-> 1],
     [date |-> 1, team |-> "red", description |-> "phish", lane |-> 3],
     [date |-> 2, team |-> "red", description |-> "pivot", lane |-> 2],
     [date |-> 0, team |-> "blue", description |-> "alert", lane |-> 1],
     [date |-> 1, team |-> "blue", description |-> "triage", lane |-> 2]}

LayoutInit ==
    /\ config \in LayoutConfigs
    /\ timeScale \in Scales
    /\ events = << >>
    /\ InitialRender(config, events, timeScale)
    /\ NoIo

LayoutAddEvent ==
    /\ Len(events) < MaxEvents
    /\ \E event \in LayoutInputs : addEvent(event)
    /\ UNCHANGED <<ioVars, editorVars, listVars, logVars>>

LayoutNext == LayoutAddEvent

LayoutSpec == LayoutInit /\ [][LayoutNext]_vars

-----------------------------------------------------------------------------
(* The application: the default document, then form submissions, editor    *)
(* saves and deletions, config changes, exports and imports                *)

\* The days the application may be started on (day 2 is a Wednesday)
Todays == {2}

addWeeks(d, n) == d + 7 * n

\* createDefaultState, on the day today; uuidv4 draws u1..u5
createDefaultState(today) ==
    [config |-> mkConfig("Red Team Assessment", today, addWeeks(today, 4)),
     events |->
        <<mkEvent("u1", addWeeks(today, 0), "red", "Initial recon & OSINT", 1),
          mkEvent("u2", addWeeks(today, 1), "red",
                  "Phishing campaign launched", 1),
          mkEvent("u3", addWeeks(today, 2), "red",
                  "Lateral movement achieved", 1),
          mkEvent("u4", addWeeks(today, 1), "blue",
                  "Suspicious login detected", 1),
          mkEvent("u5", addWeeks(today, 3), "blue",
                  "Incident response initiated", 1)>>]

Init ==
    /\ \E today \in Todays :
          /\ config = createDefaultState(today).config
          /\ events = createDefaultState(today).events
    /\ timeScale = "weeks"
    /\ InitialRender(config, events, timeScale)
    /\ NoIo

\* One more operation on the document
Step(op) ==
    /\ steps < MaxSteps
    /\ steps' = steps + 1
    /\ lastOp' = op

\* EventForm.handleSubmit with the fields as typed
handleSubmit(date, team, description, lane) ==
    /\ validate(config, date, description)
    /\ addEvent([date |-> date, team |-> team,
                 description |-> trim(description), lane |-> lane])

\* EventEditor.handleSave in the editor opened on the event e, with the
\* fields as typed
handleSave(e, date, team, description, lane) ==
    /\ validate(config, date, description)
    /\ updateEvent(e.id, [date |-> date, team |-> team,
                          description |-> trim(description), lane |-> lane])

\* EventEditor.handleDelete in the editor opened on the event e, the
\* deletion confirmed
handleDelete(e) == deleteEvent(e.id)

\* Toolbar import: importFromJson, then handleLoadState with the state it
\* resolves with; a rejected import only reports its error
importFile(data) ==
    LET r == importFromJson(data, idsOf(events))
    IN  /\ importError' = r.error
        /\ IF r.error = "none"
           THEN loadState(r.state)
           ELSE UNCHANGED <<docVars, viewVars>>
        /\ UNCHANGED <<file, editorVars, listVars>>

\* Toolbar export: the file holds handleExportState() as JSON
exportJson ==
    /\ file' = toJson(exportState)
    /\ UNCHANGED <<docVars, viewVars, importError, editorVars, listVars,
                 logVars>>

\* What the user types into the add form
FormDates == {5, 40, -1}
FormDescriptions == {" seen ", " "}
FormLanes == {2}

\* What the user types into the editor
EditorDates == {10, 40}
EditorDescriptions == {"edited", ""}
EditorLanes == {4}

\* The configs the config panel sets
ConfigInputs ==
    {mkConfig("", 2, 30), mkConfig("Op", 9, 16), mkConfig("Op", 16, 9)}

\* Events of imported files
GoodConfig == JConfig(JStr("Op"), JDate(2), JDate(30))
EvA == JEvent(JStr("a"), JDate(5), JStr("red"), JStr("recon"), JNum(2))
EvLate == JEvent(JUndefined, JDate(40), JStr("blue"), JStr(" late "), JUndefined)
EvDup == JEvent(JStr("a"), JDate(9), JStr("blue"), JStr("dup"), JNum(5))
EvBlankId == JEvent(JStr(" "), JDate(7), JStr("red"), JStr("seen"), JStr("2"))

BadEvents ==
    {JEvent(JStr("b"), JDate(-1), JStr("red"), JStr("recon"), JNum(1)),
     JEvent(JStr("b"), JNum(5), JStr("red"), JStr("recon"), JNum(1)),
     JEvent(JStr("b"), JUndefined, JStr("red"), JStr("recon"), JNum(1)),
     JEvent(JStr("b"), JDate(5), JStr("green"), JStr("recon"), JNum(1)),
     JEvent(JStr("b"), JDate(5), JUndefined, JStr("recon"), JNum(1)),
     JEvent(JStr("b"), JDate(5), JStr("red"), JStr(""), JNum(1)),
     JEvent(JStr("b"), JDate(5), JStr("red"), JStr(" "), JNum(1)),
     JEvent(JStr("b"), JDate(5), JStr("red"), JUndefined, JNum(1)),
     JNoEvent("null"),
     JNoEvent("number")}

\* Files the importer accepts
GoodDocs ==
    {JDocument(GoodConfig, JArray(items)) :
        items \in {<< >>, <<EvA>>, <<EvA, EvLate>>, <<EvA, EvDup>>,
                   <<EvBlankId, EvLate>>}}

\* Files with something wrong
BadDocs ==
    {JNoDocument(t) : t \in {"number", "string", "null", "array", "unparseable"}}
    \cup {JDocument(JNoConfig(t), JArray(<<EvA>>)) : t \in {"undefined", "null", "array"}}
    \cup {JDocument(JConfig(t, JDate(2), JDate(30)), JArray(<<EvA>>)) :
            t \in {JStr(""), JStr(" "), JNum(7), JUndefined}}
    \cup {JDocument(JConfig(JStr("Op"), d, JDate(30)), JArray(<<EvA>>)) :
            d \in {JDate(-1), JNum(2), JUndefined}}
    \cup {JDocument(JConfig(JStr("Op"), JDate(2), d), JArray(<<EvA>>)) :
            d \in {JDate(-1), JNum(30), JUndefined}}
    \cup {JDocument(GoodConfig, JNoArray(t)) : t \in {"undefined", "object", "null"}}
    \cup {JDocument(GoodConfig, JArray(<<EvA, bad>>)) : bad \in BadEvents}
    \cup {JDocument(GoodConfig, JArray(<<bad, EvA>>)) : bad \in BadEvents}

SubmitForm ==
    /\ Step("add")
    /\ \E date \in FormDates, team \in Teams,
          description \in FormDescriptions, lane \in FormLanes :
            handleSubmit(date, team, description, lane)
    /\ UNCHANGED <<ioVars, editorVars, listVars>>

SaveEditor ==
    /\ Step("edit")
    /\ \E i \in DOMAIN events, date \in EditorDates,
          description \in EditorDescriptions, lane \in EditorLanes :
            handleSave(events[i], date, "blue", description, lane)
    /\ UNCHANGED <<ioVars, editorVars, listVars>>

DeleteInEditor ==
    /\ Step("delete")
    /\ \E i \in DOMAIN events : handleDelete(events[i])
    /\ UNCHANGED <<ioVars, editorVars, listVars>>

ChangeConfig ==
    /\ Step("config")
    /\ \E cfg \in ConfigInputs : setConfig(cfg)
    /\ UNCHANGED <<ioVars, editorVars, listVars>>

ImportGoodFile ==
    /\ Step("import")
    /\ \E data \in GoodDocs : importFile(data)

ImportBadFile ==
    /\ Step("import")
    /\ \E data \in BadDocs : importFile(data)

ImportExportedFile ==
    /\ Step("reimport")
    /\ file # NoFile
    /\ importFile(file)

\* Spec: the document under every operation
Next ==
    \/ ImportGoodFile
    \/ ImportBadFile
    \/ SubmitForm
    \/ SaveEditor
    \/ DeleteInEditor
    \/ ChangeConfig
    \/ ImportExportedFile
    \/ exportJson

Spec == Init /\ [][Next]_vars

-----------------------------------------------------------------------------
(* HookSpec: useTimelineState called with any id and any partial update    *)

\* The event lists the hook starts with: the default ones, and a list as an
\* import loads it, with an id held twice
HookDocs ==
    {createDefaultState(2).events,
     <<mkEvent("a", 5, "red", "recon", 2), mkEvent("b", 7, "red", "seen", 1),
       mkEvent("a", 9, "blue", "dup", 1)>>}

\* The ids the hook is called with: those of the events and one of none
AbsentId == "zz"
HookIds == idsOf(events) \cup {AbsentId}

\* Partial<Omit<TimelineEvent, "id">>
HookUpdates ==
    {[lane |-> 3],
     [date |-> 12, description |-> "moved"],
     [date |-> 10, team |-> "blue", description |-> "edited", lane |-> 4]}

HookInit ==
    /\ config = createDefaultState(2).config
    /\ events \in HookDocs
    /\ timeScale = "weeks"
    /\ InitialRender(config, events, timeScale)
    /\ NoIo

HookUpdateEvent ==
    /\ Step("update")
    /\ \E id \in HookIds, updates \in HookUpdates : updateEvent(id, updates)
    /\ UNCHANGED <<ioVars, editorVars, listVars>>

HookDeleteEvent ==
    /\ Step("delete")
    /\ \E id \in HookIds : deleteEvent(id)
    /\ UNCHANGED <<ioVars, editorVars, listVars>>

HookAddEvent ==
    /\ Step("add")
    /\ addEvent([date |-> 5, team |-> "blue", description |-> "seen",
                 lane |-> 2])
    /\ UNCHANGED <<ioVars, editorVars, listVars>>

HookNext == HookUpdateEvent \/ HookDeleteEvent \/ HookAddEvent

HookSpec == HookInit /\ [][HookNext]_vars

-----------------------------------------------------------------------------
(* EditorSpec: the event editor click by click *)

\* App: a click on an event opens the editor on it; EventEditor mounts with
\* confirmDelete = false.  The overlay covers the events while it is open.
onEventClick(event) ==
    /\ editingEvent = << >>
    /\ editingEvent' = <<event>>
    /\ confirmDelete' = FALSE
    /\ UNCHANGED <<docVars, viewVars, ioVars, listVars, logVars>>

\* onClose: setEditingEvent(null) unmounts the editor and its state
onClose ==
    /\ editingEvent' = << >>
    /\ confirmDelete' = FALSE

\* A mutant of onDeleteClick: the click deletes without confirmation
onDeleteClick_Unconfirmed ==
    /\ editingEvent # << >>
    /\ steps < MaxSteps
    /\ handleDelete(editingEvent[1])
    /\ onClose
    /\ lastOp' = "delete"
    /\ steps' = steps + 1
    /\ UNCHANGED <<ioVars, listVars>>

\* EventEditor.handleDelete on a click of the Delete button: the first click
\* sets confirmDelete, a click with confirmDelete set deletes and closes
onDeleteClick ==
    /\ editingEvent # << >>
    /\ IF ~confirmDelete
       THEN /\ confirmDelete' = TRUE
            /\ UNCHANGED <<docVars, viewVars, ioVars, editingEvent, listVars,
                         logVars>>
       ELSE /\ Step("delete")
            /\ handleDelete(editingEvent[1])
            /\ onClose
            /\ UNCHANGED <<ioVars, listVars>>

\* onBlur of the Delete button
onDeleteBlur ==
    /\ editingEvent # << >>
    /\ confirmDelete' = FALSE
    /\ UNCHANGED <<docVars, viewVars, ioVars, editingEvent, listVars,
                         logVars>>

\* EventEditor.handleSave on a click of Save with valid fields, then onClose
onSaveClick(date, team, description, lane) ==
    /\ editingEvent # << >>
    /\ Step("edit")
    /\ handleSave(editingEvent[1], date, team, description, lane)
    /\ onClose
    /\ UNCHANGED <<ioVars, listVars>>

\* Cancel, or a click on the overlay
onCancelClick ==
    /\ editingEvent # << >>
    /\ onClose
    /\ UNCHANGED <<docVars, viewVars, ioVars, listVars, logVars>>

EditorOpen == \E i \in DOMAIN events : onEventClick(events[i])
EditorSave == onSaveClick(10, "blue", "edited", 4)

EditorNext ==
    \/ EditorOpen
    \/ onDeleteClick
    \/ onDeleteBlur
    \/ EditorSave
    \/ onCancelClick

EditorSpec == Init /\ [][EditorNext]_vars

-----------------------------------------------------------------------------
(* ListSpec: the list view, with the editor and the add form beside it *)

\* EventList.toggleOne
toggleOne(id) ==
    /\ selected' = IF id \in selected THEN selected \ {id}
                   ELSE selected \cup {id}
    /\ UNCHANGED <<docVars, viewVars>>

\* EventList.toggleAll
toggleAll ==
    /\ selected' = IF Cardinality(selected) = Len(events) THEN {}
                   ELSE idsOf(events)
    /\ UNCHANGED <<docVars, viewVars>>

\* EventList.allChecked: the state of the select-all checkbox
allChecked == Len(events) > 0 /\ Cardinality(selected) = Len(events)

\* The count the bulk bar shows: selected.size
bulkCount == Cardinality(selected)

\* What useTimelineState returns
HookReturns ==
    {"state", "addEvent", "updateEvent", "deleteEvent", "setConfig",
     "setEvents", "loadState", "exportState"}

\* App takes deleteEvents from useTimelineState(), which returns no such
\* property: the prop is undefined
deleteEventsDefined == "deleteEvents" \in HookReturns

\* EventList.handleDeleteSelected: with a non-empty selection it calls the
\* deleteEvents prop; the call of undefined throws a TypeError, so neither
\* the document nor the selection changes
handleDeleteSelected ==
    /\ ~deleteEventsDefined \/ selected = {}
    /\ UNCHANGED <<docVars, viewVars, listVars>>

\* A click on a row checkbox of the table
ListToggleOne ==
    /\ \E i \in DOMAIN events : toggleOne(events[i].id)
    /\ UNCHANGED <<ioVars, editorVars, logVars>>

\* A click on the select-all checkbox; the table is drawn for a non-empty
\* list only
ListToggleAll ==
    /\ Len(events) > 0
    /\ toggleAll
    /\ UNCHANGED <<ioVars, editorVars, logVars>>

\* A click on Delete Selected; the bulk bar is drawn for a non-empty
\* selection only
ListDeleteSelected ==
    /\ selected # {}
    /\ Step("deleteSelected")
    /\ handleDeleteSelected
    /\ UNCHANGED <<ioVars, editorVars>>

\* The add form below the list, submitted with one event
ListSubmitForm ==
    /\ Step("add")
    /\ handleSubmit(5, "blue", " seen ", 2)
    /\ UNCHANGED <<ioVars, editorVars, listVars>>

\* An import of a file of two events
ListImportFile ==
    /\ Step("import")
    /\ importFile(JDocument(GoodConfig, JArray(<<EvA, EvLate>>)))

ListNext ==
    \/ ListToggleOne
    \/ ListToggleAll
    \/ ListDeleteSelected
    \/ DeleteInEditor
    \/ ListSubmitForm
    \/ ListImportFile

ListSpec == Init /\ [][ListNext]_vars

-----------------------------------------------------------------------------
(* Properties of the time-axis mappers (MapperSpec) *)

RangeStart == parseISO(config.startDate)
RangeEnd == parseISO(config.endDate)
Zero == FracOfInt(0)
Hundred == FracOfInt(100)

InRange(date) == RangeStart <= parseISO(date) /\ parseISO(date) <= RangeEnd

\* The tick of a day of the range, in a tick list with one entry per day
TickOf(ticks, date) == ticks[parseISO(date) - RangeStart + 1]

\* Every placed event of the range sits where the tick of its day is
EventsOnTicks(ticks) ==
    \A list \in {red, blue} : \A k \in DOMAIN list :
        InRange(list[k].event.date) =>
            list[k].percent = TickOf(ticks, list[k].event.date)

\* C1: under the linear-by-day policy with startDate < endDate, the days of
\* [startDate, endDate] (and the events on them) get percentages that do not
\* decrease with the date, and startDate gets 0.
C1_LinearMonotone ==
    (timeScale = "days" /\ RangeStart < RangeEnd) =>
        /\ Len(days) = RangeEnd - RangeStart + 1
        /\ days[1] = Zero
        /\ \A i, j \in DOMAIN days : i <= j => FracLe(days[i], days[j])
        /\ EventsOnTicks(days)

C1_Witness ==
    /\ timeScale = "days"
    /\ RangeStart + 3 <= RangeEnd
    /\ Len(red) = 1
    /\ RangeStart < parseISO(red[1].event.date)
    /\ parseISO(red[1].event.date) < RangeEnd
    /\ FracLt(Zero, red[1].percent)

\* C2: under the linear-by-day policy every day of [startDate, endDate], the
\* end date included, is mapped into [0, 100), totalDays being the inclusive
\* span of the range.
C2_LinearBelowHundred ==
    (timeScale = "days" /\ RangeStart < RangeEnd) =>
        /\ \A i \in DOMAIN days :
              FracLe(Zero, days[i]) /\ FracLt(days[i], Hundred)
        /\ totalDays(config) = RangeEnd - RangeStart + 1

\* The number of Monday-based weeks the range touches
NumWeeks == ((startOfWeek(RangeEnd) - startOfWeek(RangeStart)) \div 7) + 1

\* The week (0-based) a day belongs to: the last week start <= the day
WeekOfDay(d) == (d - startOfWeek(RangeStart)) \div 7

\* C3: under the evenly-bucketed-by-week policy with startDate < endDate and
\* n Monday-based weeks, every day of the range that belongs to week i maps
\* into [i*100/n, (i+1)*100/n), the week-start day of week i maps exactly to
\* i*100/n, where week tick i is drawn, and the end date maps below 100.
C3_EvenWeekShare ==
    (timeScale = "weeks" /\ RangeStart < RangeEnd) =>
        /\ Len(weeks) = NumWeeks
        /\ Len(dayTicks) = RangeEnd - RangeStart + 1
        /\ \A i \in DOMAIN weeks : weeks[i] = Frac((i - 1) * 100, NumWeeks)
        /\ \A k \in DOMAIN dayTicks :
              LET i == WeekOfDay(RangeStart + k - 1)
              IN  /\ FracLe(Frac(i * 100, NumWeeks), dayTicks[k])
                  /\ FracLt(dayTicks[k], Frac((i + 1) * 100, NumWeeks))
        /\ \A i \in DOMAIN weeks :
              toPercent(config, timeScale, startOfWeek(RangeStart) + 7 * (i - 1))
                  = weeks[i]
        /\ FracLt(dayTicks[Len(dayTicks)], Hundred)
        /\ EventsOnTicks(dayTicks)

\* A range of three weeks whose first and last weeks are partial, with an
\* event in the last week
C3_Witness ==
    /\ timeScale = "weeks"
    /\ RangeStart % 7 = 3
    /\ RangeEnd % 7 = 1
    /\ Len(weeks) = 3
    /\ Len(red) = 1
    /\ parseISO(red[1].event.date) = RangeEnd
    /\ FracLt(weeks[3], red[1].percent)

\* C7: when endDate <= startDate every event maps to percent 0 under both
\* policies, whatever its date, and the mappers are defined (no tick is
\* drawn).
C7_DegenerateCollapses ==
    (RangeEnd <= RangeStart) =>
        /\ \A list \in {red, blue} : \A k \in DOMAIN list :
              list[k].percent = Zero
        /\ \A d \in MapperDays : \A ts \in Scales :
              toPercent(config, ts, d) = Zero
        /\ weeks = << >> /\ days = << >> /\ dayTicks = << >>

C7_Witness ==
    /\ RangeEnd = RangeStart
    /\ timeScale = "weeks"
    /\ Len(red) = 1
    /\ parseISO(red[1].event.date) > RangeStart
    /\ red[1].percent = Zero

-----------------------------------------------------------------------------
(* Properties of the event position resolver (LayoutSpec) *)

Threshold == Frac(3, 2)

Distance(p, q) == FracAbs(FracSub(p, q))

\* The first member of the cluster record k of a placement list is in: the
\* last record at or before k that opens a cluster
AnchorOf(list, k) ==
    CHOOSE a \in 1..k :
        /\ list[a].stackIndex = 0
        /\ \A j \in (a + 1)..k : list[j].stackIndex # 0

\* The records of the cluster that opens at record a
MembersOf(list, a) == a..(a + list[a].clusterSize - 1)

AnchoredClusters(list) ==
    /\ list # << >> => list[1].stackIndex = 0
    /\ \A k \in 2..Len(list) :
          LET first == list[AnchorOf(list, k - 1)]
          IN  (list[k].stackIndex # 0)
                  <=> FracLt(Distance(list[k].percent, first.percent), Threshold)
    /\ \A k \in DOMAIN list :
          FracLt(Distance(list[k].percent, list[AnchorOf(list, k)].percent),
                 Threshold)

\* C4: walking a team's events in sorted order, an event joins the open
\* cluster iff its percent is less than 1.5 from the percent of the open
\* cluster's first member, and otherwise opens a new cluster; so every
\* member of a cluster is less than 1.5 from the cluster's first member.
C4_AnchoredToFirst == AnchoredClusters(red) /\ AnchoredClusters(blue)

\* Three red events on consecutive days of the long range: the third is
\* within 1.5 of the second, not of the first, and opens a cluster
C4_Witness ==
    /\ Len(red) = 3
    /\ red[1].stackIndex = 0 /\ red[2].stackIndex = 1 /\ red[3].stackIndex = 0
    /\ FracLt(Distance(red[3].percent, red[2].percent), Threshold)
    /\ ~FracLt(Distance(red[3].percent, red[1].percent), Threshold)

\* The overflow descriptors that show an event of the cluster opening at a
DescriptorsOf(list, ovs, a) ==
    {j \in DOMAIN ovs :
        \E k \in MembersOf(list, a) : \E m \in DOMAIN ovs[j].events :
            ovs[j].events[m].id = list[k].event.id}

OneOverflowPerCluster(list, ovs) ==
    \A a \in DOMAIN list :
        (list[a].stackIndex = 0 /\ list[a].clusterSize > 3) =>
            /\ Cardinality({k \in MembersOf(list, a) : ~list[k].truncated}) = 3
            /\ Cardinality(DescriptorsOf(list, ovs, a)) = 1
            /\ \A j \in DescriptorsOf(list, ovs, a) :
                  ovs[j].count = list[a].clusterSize - 3

\* C5: every same-team cluster of n > 3 events, whatever the dates of its
\* members, has exactly 3 records that are not truncated and exactly one
\* overflow descriptor, whose count is n - 3.
C5_OneOverflowPerCluster ==
    /\ OneOverflowPerCluster(red, redOverflows)
    /\ OneOverflowPerCluster(blue, blueOverflows)

\* The flag drawn for the event of a placement record
FlagOf(flags, p) == CHOOSE f \in {flags[i] : i \in DOMAIN flags} : f.event = p.event

HasFlag(flags, p) == \E i \in DOMAIN flags : flags[i].event = p.event

\* The pairs of visible records of one cluster that lie on different lanes
LanePairs(list) ==
    {pair \in (DOMAIN list) \X (DOMAIN list) :
        /\ AnchorOf(list, pair[1]) = AnchorOf(list, pair[2])
        /\ ~list[pair[1]].truncated /\ ~list[pair[2]].truncated
        /\ list[pair[1]].event.lane # list[pair[2]].event.lane}

\* C6 as claimed: two visible events of one cluster on different lanes have
\* vertical offsets that differ by exactly stackSpacing.
LanesOneSpacingApart(list, flags) ==
    \A pair \in LanePairs(list) :
        Abs(FlagOf(flags, list[pair[1]]).offset
              - FlagOf(flags, list[pair[2]]).offset) = stackSpacing

C6_Original_OneSpacingApart ==
    LanesOneSpacingApart(red, redFlags) /\ LanesOneSpacingApart(blue, blueFlags)

LanesApartByLaneDistance(list, flags) ==
    /\ \A k \in DOMAIN list :
          ~list[k].truncated =>
              /\ HasFlag(flags, list[k])
              /\ FlagOf(flags, list[k]).offset
                    = poleHeight + (list[k].event.lane - 1) * stackSpacing
    /\ \A pair \in LanePairs(list) :
          LET d == Abs(list[pair[1]].event.lane - list[pair[2]].event.lane)
          IN  /\ Abs(FlagOf(flags, list[pair[1]]).offset
                       - FlagOf(flags, list[pair[2]]).offset) = d * stackSpacing
              /\ d >= 1

\* C6 (amended): the vertical offset of a visible event is
\* poleHeight + (lane - 1) * stackSpacing, from its own lane, so two visible
\* events of one cluster on different lanes have offsets that differ by
\* exactly stackSpacing times the distance of their lanes, at least
\* stackSpacing.
C6_LaneDistanceApart ==
    /\ LanesApartByLaneDistance(red, redFlags)
    /\ LanesApartByLaneDistance(blue, blueFlags)

\* Two red events of one cluster on lanes 1 and 3, the second in stack slot 1
C6_Witness ==
    /\ Len(red) = 2
    /\ red[1].clusterSize = 2
    /\ red[1].event.lane = 1 /\ red[2].event.lane = 3
    /\ Len(redFlags) = 2
    /\ FlagOf(redFlags, red[2]).offset - FlagOf(redFlags, red[1]).offset = 64

-----------------------------------------------------------------------------
(* Properties of the document operations (Spec) *)

\* The files an import may read
ImportedFiles == GoodDocs \cup BadDocs \cup {file}

\* A JSON string that is not empty after trimming
NonEmptyText(v) == v.type = "string" /\ trim(v.s) # ""

\* A JSON string that spells a calendar date
IsoDate(v) == v.type = "string" /\ v.n >= 0

\* An item of events with a valid date, a team and a description
ValidEventItem(e) ==
    /\ e.type = "object"
    /\ IsoDate(e.date)
    /\ e.team.type = "string" /\ e.team.s \in Teams
    /\ NonEmptyText(e.description)

\* A file with an object root, a valid config and only valid events
ValidDocument(d) ==
    /\ d.type = "object"
    /\ d.config.type = "object"
    /\ NonEmptyText(d.config.title)
    /\ IsoDate(d.config.startDate)
    /\ IsoDate(d.config.endDate)
    /\ d.events.type = "array"
    /\ \A i \in DOMAIN d.events.items : ValidEventItem(d.events.items[i])

\* A step that imports a file
ImportStep == lastOp' \in {"import", "reimport"} /\ steps' = steps + 1

\* A step that imports the exported file
ReimportStep == lastOp' = "reimport" /\ steps' = steps + 1

\* C8: an import of a file whose root is no object, whose config is missing
\* or invalid, whose events are no array, or ANY of whose events has an
\* invalid date, team or description is rejected with an error and leaves
\* the config and the events as they were: no part of the file is loaded.
C8_ImportAllOrNothing ==
    [][\A data \in ImportedFiles :
          (ImportStep /\ importFile(data) /\ ~ValidDocument(data))
              => /\ importError' # "none"
                 /\ config' = config
                 /\ events' = events]_vars

\* A file whose first event is valid and whose second is not was rejected,
\* and the document still holds the default events
C8_Witness ==
    /\ lastOp = "import"
    /\ importError = "event.description"
    /\ Len(events) = 5
    /\ config.title = "Red Team Assessment"

\* The events an exported file holds
ExportedEvents(f) ==
    [i \in DOMAIN f.events.items |->
        mkEvent(f.events.items[i].id.s, f.events.items[i].date.n,
                f.events.items[i].team.s, f.events.items[i].description.s,
                f.events.items[i].lane.n)]

\* C9 as stated: importing the export of any reachable state succeeds and
\* yields the exported events, in order, ids included.
C9_Original_AnyStateRoundTrips ==
    [][ReimportStep
          => /\ importError' = "none"
             /\ events' = ExportedEvents(file)]_vars

\* C9 as amended: importing the export of a state whose config title is not
\* empty after trimming succeeds and yields the exported events, in order,
\* with the same id, date, team, description and lane.
C9_TitledStateRoundTrips ==
    [][(ReimportStep /\ NonEmptyText(file.config.title))
          => /\ importError' = "none"
             /\ events' = ExportedEvents(file)]_vars

\* An exported file with an event the form added was imported again
C9_Witness ==
    /\ lastOp = "reimport"
    /\ importError = "none"
    /\ NonEmptyText(file.config.title)
    /\ events = ExportedEvents(file)
    /\ \E i \in DOMAIN events :
          events[i].description = "seen" /\ events[i].lane = 2

\* C10: every event of the document has a date within
\* [config.startDate, config.endDate].
C10_EventsWithinRange ==
    \A i \in DOMAIN events :
        /\ config.startDate <= events[i].date
        /\ events[i].date <= config.endDate

\* C11: no two events of the document have the same id.
C11_UniqueIds ==
    \A i \in DOMAIN events : \A j \in DOMAIN events :
        events[i].id = events[j].id => i = j

\* C12: every event of the document is well-formed: its date is a calendar
\* date, its team is red or blue, its description is not empty after
\* trimming and its lane is one of 1, 2, 3, 4.
C12_WellFormedEvents ==
    \A i \in DOMAIN events :
        /\ isValid(parseISO(events[i].date))
        /\ events[i].team \in {"red", "blue"}
        /\ trim(events[i].description) # ""
        /\ events[i].lane \in {1, 2, 3, 4}

\* The form has added an event and the editor has saved another
C12_Witness ==
    /\ steps = 2
    /\ \E i \in DOMAIN events : events[i].description = "seen"
    /\ \E i \in DOMAIN events : events[i].description = "edited"

\* The lane of a file's event is exactly 1, 2, 3 or 4
LaneGiven(e) == e.lane.type = "number" /\ e.lane.n \in {1, 2, 3, 4}

\* The id of a file's event is a string that is not empty after trimming
IdGiven(e) == NonEmptyText(e.id)

\* The ids the events of a file give
GivenIds(items) ==
    {items[i].id.s : i \in {j \in DOMAIN items : IdGiven(items[j])}}

\* The event at i of the imported list answers the item at i of the file:
\* a given lane or id is kept, another lane is 1, another id is a fresh one
\* (not empty, no id the file gives, not the id of another imported event)
LaneAndIdRule(items, imported, i) ==
    /\ imported[i].lane = IF LaneGiven(items[i]) THEN items[i].lane.n ELSE 1
    /\ imported[i].lane \in {1, 2, 3, 4}
    /\ trim(imported[i].id) # ""
    /\ IF IdGiven(items[i])
       THEN imported[i].id = items[i].id.s
       ELSE /\ imported[i].id \notin GivenIds(items)
            /\ \A j \in DOMAIN imported :
                  imported[j].id = imported[i].id => j = i

\* C13: every accepted import gives each event a lane in 1..4 and a
\* non-empty id: a lane that is exactly 1, 2, 3 or 4 is kept and any other
\* or missing lane becomes 1; an id that is a string non-empty after
\* trimming is kept and any other or missing id becomes a fresh one.
C13_LaneAndIdDefaults ==
    [][\A data \in ImportedFiles :
          (ImportStep /\ importFile(data) /\ importError' = "none")
              => /\ Len(events') = Len(data.events.items)
                 /\ \A i \in DOMAIN events' :
                       LaneAndIdRule(data.events.items, events', i)]_vars

\* A file was imported whose first event gives id and lane and whose second
\* gives neither
C13_Witness ==
    /\ lastOp = "import"
    /\ importError = "none"
    /\ Len(events) = 2
    /\ events[1].id = "a" /\ events[1].lane = 2
    /\ \E k \in DOMAIN UuidPool : events[2].id = UuidPool[k]
    /\ events[2].lane = 1
    /\ events[2].description = " late "

-----------------------------------------------------------------------------
(* Properties of the placement lists (LayoutSpec) *)

\* The place of the event with this id in the input list
InputIndex(id) == CHOOSE i \in DOMAIN events : events[i].id = id

\* The records of a placement list are in ascending date order, and records
\* of one date are in the order of the input list
SortedStable(positions) ==
    \A k \in DOMAIN positions : \A l \in DOMAIN positions :
        k < l =>
            /\ positions[k].event.date <= positions[l].event.date
            /\ positions[k].event.date = positions[l].event.date
                  => InputIndex(positions[k].event.id)
                        < InputIndex(positions[l].event.id)

\* The number of records of a placement list that hold the event e
Occurrences(positions, e) ==
    Cardinality({k \in DOMAIN positions : positions[k].event = e})

\* C14: each team's placement list is in ascending date order, events of
\* equal dates keep their order from the input list, and every input event
\* appears exactly once: a red event in the red list only, any other in the
\* blue list only.
C14_SortedStablePartition ==
    /\ SortedStable(red)
    /\ SortedStable(blue)
    /\ Len(red) + Len(blue) = Len(events)
    /\ \A i \in DOMAIN events :
          IF events[i].team = "red"
          THEN Occurrences(red, events[i]) = 1
                  /\ Occurrences(blue, events[i]) = 0
          ELSE Occurrences(blue, events[i]) = 1
                  /\ Occurrences(red, events[i]) = 0

\* The input list has a red event before an earlier red event, two red
\* events of one date, and a blue event
C14_Witness ==
    /\ \E i \in DOMAIN events : \E j \in DOMAIN events :
          /\ i < j
          /\ events[i].team = "red" /\ events[j].team = "red"
          /\ events[i].date > events[j].date
    /\ \E i \in DOMAIN events : \E j \in DOMAIN events :
          /\ i < j
          /\ events[i].team = "red" /\ events[j].team = "red"
          /\ events[i].date = events[j].date
    /\ Len(blue) > 0

\* The events of the input list that are red (or, with FALSE, not red)
OnlyTeam(evs, isRed) ==
    LET keep(e) == (e.team = "red") = isRed
    IN  SelectSeq(evs, keep)

\* The layout of the input list without the events of the other team
AloneRed == getEventPositions(OnlyTeam(events, TRUE), config, timeScale).red
AloneBlue == getEventPositions(OnlyTeam(events, FALSE), config, timeScale).blue

\* C15: for a fixed config and scale, the red placement records and the red
\* overflow descriptors are those of the red events laid out alone, whatever
\* the blue events are, and the blue ones those of the blue events alone.
C15_TeamsIndependent ==
    /\ red = AloneRed
    /\ redOverflows = overflows(AloneRed)
    /\ blue = AloneBlue
    /\ blueOverflows = overflows(AloneBlue)

\* An oversize red cluster with a blue event on the same percent
C15_Witness ==
    /\ Len(redOverflows) > 0
    /\ \E k \in DOMAIN blue : blue[k].percent = red[1].percent

\* The dates of the truncated records of a placement list
TruncatedDates(positions) ==
    {positions[k].event.date :
        k \in {j \in DOMAIN positions : positions[j].truncated}}

\* The events of the truncated records with the date d, in list order
HiddenEvents(positions, d) ==
    LET isHidden(r) == r.truncated /\ r.event.date = d
        records == SelectSeq(positions, isHidden)
    IN  [k \in DOMAIN records |-> records[k].event]

RECURSIVE SumOfCounts(_)
SumOfCounts(descriptors) ==
    IF descriptors = << >> THEN 0
    ELSE Head(descriptors).count + SumOfCounts(Tail(descriptors))

\* The descriptors of a team answer the dates of its truncated records one
\* to one
OverflowPerTruncatedDate(positions, descriptors) ==
    /\ Len(descriptors) = Cardinality(TruncatedDates(positions))
    /\ \A d \in TruncatedDates(positions) :
          Cardinality({o \in DOMAIN descriptors :
                          descriptors[o].events = HiddenEvents(positions, d)})
              = 1
    /\ \A o \in DOMAIN descriptors :
          /\ descriptors[o].count = Len(descriptors[o].events)
          /\ descriptors[o].count > 0
          /\ descriptors[o].offset
                = poleHeight + CLUSTER_VISIBLE_LIMIT * stackSpacing
    /\ \A k \in DOMAIN positions :
          positions[k].truncated =>
              Cardinality({o \in DOMAIN descriptors :
                  \E m \in DOMAIN descriptors[o].events :
                      descriptors[o].events[m] = positions[k].event}) = 1
    /\ SumOfCounts(descriptors)
          = Cardinality({k \in DOMAIN positions : positions[k].truncated})

ClusterAnchor(positions, k) == positions[k - positions[k].stackIndex]

\* Every descriptor sits on the percent of the first member of the cluster
\* whose hidden events it holds
OverflowOnAnchor(positions, descriptors) ==
    \A k \in DOMAIN positions : \A o \in DOMAIN descriptors :
        (/\ positions[k].truncated
         /\ \E m \in DOMAIN descriptors[o].events :
                descriptors[o].events[m] = positions[k].event)
            => descriptors[o].percent = ClusterAnchor(positions, k).percent

\* C17: the overflow indicator of an oversize cluster has the percent of the
\* cluster's first member, also when the members do not share one percent.
C17_OverflowOnAnchor ==
    /\ OverflowOnAnchor(red, redOverflows)
    /\ OverflowOnAnchor(blue, blueOverflows)

\* The records of a placement list form clusters: runs that count their
\* members 0, 1, ..., n - 1, each member carrying the size n of its run, and
\* a record is truncated exactly from slot 3 on
ClustersNumbered(positions) ==
    \A k \in DOMAIN positions :
        LET r == positions[k]
        IN  /\ k = 1 => r.stackIndex = 0
            /\ r.stackIndex >= 0
            /\ r.stackIndex < r.clusterSize
            /\ r.stackIndex < r.clusterSize - 1
                  => /\ k + 1 \in DOMAIN positions
                     /\ positions[k + 1].stackIndex = r.stackIndex + 1
                     /\ positions[k + 1].clusterSize = r.clusterSize
            /\ r.stackIndex = r.clusterSize - 1
                  => \/ k = Len(positions)
                     \/ positions[k + 1].stackIndex = 0
            /\ r.truncated <=> r.stackIndex >= 3

\* C18: within every cluster of size n the members carry stackIndex
\* 0, 1, ..., n - 1 in cluster order and clusterSize n, and a record is
\* truncated exactly when its stackIndex is at least 3.
C18_ClustersNumbered ==
    /\ ClustersNumbered(red)
    /\ ClustersNumbered(blue)

\* A red cluster of four, its last member truncated, and a second red cluster
C18_Witness ==
    /\ Len(red) = 5
    /\ red[4].stackIndex = 3 /\ red[4].truncated /\ red[4].clusterSize = 4
    /\ red[5].stackIndex = 0 /\ red[5].clusterSize = 1

-----------------------------------------------------------------------------
(* Properties of updateEvent and deleteEvent (HookSpec) *)

\* The fields of an event other than its id
UpdatableFields == {"date", "team", "description", "lane"}

\* after is before with the supplied fields overwritten, the id kept
Overwritten(before, after, updates) ==
    /\ after.id = before.id
    /\ \A f \in UpdatableFields :
          after[f] = IF f \in DOMAIN updates THEN updates[f] ELSE before[f]

\* The places of the events that do not have the id, in ascending order
RECURSIVE KeptPlaces(_, _, _)
KeptPlaces(evs, id, n) ==
    IF n = 0 THEN << >>
    ELSE IF evs[n].id # id
         THEN Append(KeptPlaces(evs, id, n - 1), n)
         ELSE KeptPlaces(evs, id, n - 1)

\* What a call of updateEvent(id, updates) leaves and changes
UpdateFrame(id, updates) ==
    /\ config' = config
    /\ Len(events') = Len(events)
    /\ \A i \in DOMAIN events :
          IF events[i].id = id
          THEN Overwritten(events[i], events'[i], updates)
          ELSE events'[i] = events[i]
    /\ id \notin idsOf(events) => events' = events

\* What a call of deleteEvent(id) leaves and removes
DeleteFrame(id) ==
    LET kept == KeptPlaces(events, id, Len(events))
    IN  /\ config' = config
        /\ Len(events') = Len(kept)
        /\ \A k \in DOMAIN kept : events'[k] = events[kept[k]]
        /\ \A k \in DOMAIN events' : events'[k].id # id
        /\ id \notin idsOf(events) => events' = events

\* C19: updateEvent(id, updates) changes only the events with that id,
\* overwriting just the supplied fields and never the id, and keeps the
\* number and order of the events and the config; deleteEvent(id) removes
\* exactly the events with that id and keeps the others, their order and the
\* config; both change nothing when no event has the id.
C19_UpdateDeleteFrame ==
    [][\A id \in HookIds :
          /\ \A updates \in HookUpdates :
                (lastOp' = "update" /\ steps' = steps + 1
                    /\ updateEvent(id, updates))
                    => UpdateFrame(id, updates)
          /\ (lastOp' = "delete" /\ steps' = steps + 1 /\ deleteEvent(id))
                => DeleteFrame(id)]_vars

\* Both events with the id a got lane 3 and kept their other fields, then
\* the event with the id b was deleted from between them
C19_Witness ==
    /\ lastOp = "delete"
    /\ steps = 2
    /\ events = <<mkEvent("a", 5, "red", "recon", 3),
                  mkEvent("a", 9, "blue", "dup", 3)>>

-----------------------------------------------------------------------------
(* Properties of the event editor (EditorSpec) *)

\* C20: in the editor an event is removed only by a Delete click made while
\* confirmation is armed; the editor opens unarmed and a blur of the Delete
\* button disarms it, and a Delete click made while unarmed only arms
\* confirmation and leaves the events as they are.
C20_DeleteNeedsConfirmation ==
    [][/\ Len(events') < Len(events) => (confirmDelete /\ onDeleteClick)
       /\ (onDeleteClick /\ ~confirmDelete)
             => (events' = events /\ confirmDelete')
       /\ (editingEvent = << >> /\ editingEvent' # << >>) => ~confirmDelete'
       /\ onDeleteBlur => ~confirmDelete']_vars

\* The editor was opened on the second event, Delete was clicked twice, and
\* the event is gone
C20_Witness ==
    /\ lastOp = "delete"
    /\ editingEvent = << >>
    /\ Len(events) = 4
    /\ \A i \in DOMAIN events : events[i].id # "u2"

-----------------------------------------------------------------------------
(* Properties of the list view (ListSpec) *)

\* Every event the list shows has its row checkbox checked
EveryListedSelected == \A i \in DOMAIN events : events[i].id \in selected

\* The events of the document whose id is selected
SelectedEvents == {i \in DOMAIN events : events[i].id \in selected}

\* C21: the select-all checkbox is checked exactly when the list is not
\* empty and every listed event is selected, and the count the bulk bar
\* shows counts only events that are in the document.
C21_SelectAllMatchesSelection ==
    /\ allChecked <=> (Len(events) > 0 /\ EveryListedSelected)
    /\ bulkCount = Cardinality(SelectedEvents)

\* The events of the document without those whose id is selected
Unselected ==
    LET keep(e) == e.id \notin selected
    IN  SelectSeq(events, keep)

\* C22: a press of Delete Selected with a non-empty selection removes
\* exactly the events whose id is selected, leaves the other events and the
\* config as they are and empties the selection.
C22_DeleteSelectedRemovesSelection ==
    [][(lastOp' = "deleteSelected" /\ steps' = steps + 1 /\ selected # {})
          => /\ events' = Unselected
             /\ config' = config
             /\ selected' = {}]_vars

====
